---- MODULE Spec2Model ----
(***************************************************************************)
(* A model of debruijn.py: the k-mer counter, the graph builder, the       *)
(* path selector, the bubble and tip resolvers, the contig extractor and   *)
(* the pipeline of main().                                                 *)
(*                                                                         *)
(* A DiGraph is a record [nodes, edges]: nodes is the sequence of nodes in *)
(* insertion order (the order graph.nodes() iterates in), edges the        *)
(* sequence of [u, v, w] in insertion order (the order successors() and    *)
(* predecessors() iterate in).  A string is a sequence of one-character    *)
(* strings.  An exception is a status other than "ok" in the result of the *)
(* call; mutations done in place before the raise stay in the graph.       *)
(***************************************************************************)
EXTENDS Integers, Sequences, FiniteSets, TLC

VARIABLES fastq, kmer_size, kmer_dict, graph, starting_nodes, ending_nodes,
          contigs, file_out, pc, done, call, pre, ret

vars == <<fastq, kmer_size, kmer_dict, graph, starting_nodes, ending_nodes,
          contigs, file_out, pc, done, call, pre, ret>>

\* Bounds of the model.
MaxReadLen == 4
MaxK == 3
MaxNodes == 4
PathNodes == 4

\* textwrap.fill(contig[0], width=80)
width == 80

(***************************************************************************)
(* Sequences                                                               *)
(***************************************************************************)
Range(s) == {s[i] : i \in 1..Len(s)}

Min(a, b) == IF a <= b THEN a ELSE b

\* s[a:b] of Python, 0 <= a <= b: the slice is cut at the end of s.
PySlice(s, a, b) == SubSeq(s, a + 1, Min(b, Len(s)))

\* list.pop(i), i a valid 0-based index: the list without that element.
Pop(s, i) == SubSeq(s, 1, i) \o SubSeq(s, i + 2, Len(s))

RECURSIVE Flatten(_)
Flatten(ss) == IF ss = <<>> THEN <<>> ELSE Head(ss) \o Flatten(Tail(ss))

(***************************************************************************)
(* networkx.DiGraph                                                        *)
(***************************************************************************)
DiGraph == [nodes |-> <<>>, edges |-> <<>>]

has_node(g, n) == \E i \in 1..Len(g.nodes) : g.nodes[i] = n

has_edge(g, u, v) == \E i \in 1..Len(g.edges) : g.edges[i].u = u /\ g.edges[i].v = v

edge_weight(g, u, v) ==
    (CHOOSE e \in Range(g.edges) : e.u = u /\ e.v = v).w

add_node(g, n) ==
    IF has_node(g, n) THEN g ELSE [g EXCEPT !.nodes = Append(@, n)]

\* graph.add_edge(u, v, weight=w): an edge that exists keeps its place and
\* takes the new weight.
add_edge(g, u, v, w) ==
    LET g2 == add_node(add_node(g, u), v)
    IN  IF has_edge(g2, u, v)
        THEN [g2 EXCEPT !.edges =
                 [i \in 1..Len(@) |->
                     IF @[i].u = u /\ @[i].v = v
                     THEN [u |-> u, v |-> v, w |-> w] ELSE @[i]]]
        ELSE [g2 EXCEPT !.edges = Append(@, [u |-> u, v |-> v, w |-> w])]

\* remove_nodes_from ignores a node that is not in the graph; a removed node
\* takes its incident edges with it.
remove_node(g, n) ==
    [nodes |-> SelectSeq(g.nodes, LAMBDA x : x # n),
     edges |-> SelectSeq(g.edges, LAMBDA e : e.u # n /\ e.v # n)]

RECURSIVE remove_nodes_from(_, _)
remove_nodes_from(g, ns) ==
    IF ns = <<>> THEN g
    ELSE remove_nodes_from(remove_node(g, Head(ns)), Tail(ns))

successors(g, n) ==
    LET es == SelectSeq(g.edges, LAMBDA e : e.u = n)
    IN  [i \in 1..Len(es) |-> es[i].v]

predecessors(g, n) ==
    LET es == SelectSeq(g.edges, LAMBDA e : e.v = n)
    IN  [i \in 1..Len(es) |-> es[i].u]

\* all_simple_paths(G, source, target), source # target and both in G: a
\* depth-first walk over the successors in adjacency order that yields a
\* path each time it meets the target, and does not walk through the target.
RECURSIVE DfsPaths(_, _, _, _)
DfsPaths(g, visited, t, i) ==
    LET succ == successors(g, visited[Len(visited)])
    IN  IF i > Len(succ) THEN <<>>
        ELSE LET c == succ[i]
                 here == IF c \in Range(visited) THEN <<>>
                         ELSE IF c = t THEN <<Append(visited, c)>>
                         ELSE DfsPaths(g, Append(visited, c), t, 1)
             IN  here \o DfsPaths(g, visited, t, i + 1)

all_simple_paths(g, s, t) == DfsPaths(g, <<s>>, t, 1)

\* The nodes reachable from n by a path of zero or more edges.
RECURSIVE Reach(_, _)
Reach(g, S) ==
    LET T == S \cup {e.v : e \in {x \in Range(g.edges) : x.u \in S}}
    IN  IF T = S THEN S ELSE Reach(g, T)

has_path(g, s, t) == t \in Reach(g, {s})

\* nx.ancestors(G, n) with n itself added, as lowest_common_ancestor does.
AncestorsOrSelf(g, n) == {a \in Range(g.nodes) : n \in Reach(g, {a})}

\* lowest_common_ancestor(G, n1, n2) on a DAG: a common ancestor none of
\* whose successors is a common ancestor; which one depends on the
\* iteration order of a set, so every such node is an outcome.  The empty
\* set stands for the default, None.
lowest_common_ancestor(g, n1, n2) ==
    LET ca == AncestorsOrSelf(g, n1) \cap AncestorsOrSelf(g, n2)
    IN  {a \in ca : \A s \in Range(successors(g, a)) : s \notin ca}

(***************************************************************************)
(* The k-mer counter and the graph builder                                 *)
(***************************************************************************)
\* cut_kmer: the k_over + 1 slices read[i:i+kmer_size], i in 0..k_over.
cut_kmer(read, k) ==
    LET k_over == k + (Len(read) % k)
    IN  [j \in 1..(k_over + 1) |-> PySlice(read, j - 1, j - 1 + k)]

\* kmer_dict[kmer] += 1, or = 1 for a new key; a dict keeps insertion order.
CountKmer(d, kmer) ==
    IF \E i \in 1..Len(d) : d[i].kmer = kmer
    THEN [i \in 1..Len(d) |->
             IF d[i].kmer = kmer THEN [kmer |-> kmer, n |-> d[i].n + 1] ELSE d[i]]
    ELSE Append(d, [kmer |-> kmer, n |-> 1])

RECURSIVE CountKmers(_, _)
CountKmers(d, kmers) ==
    IF kmers = <<>> THEN d
    ELSE CountKmers(CountKmer(d, Head(kmers)), Tail(kmers))

RECURSIVE build_kmer_dict_from(_, _, _)
build_kmer_dict_from(d, seqs, k) ==
    IF seqs = <<>> THEN d
    ELSE build_kmer_dict_from(CountKmers(d, cut_kmer(Head(seqs), k)), Tail(seqs), k)

build_kmer_dict(seqs, k) == build_kmer_dict_from(<<>>, seqs, k)

\* seq[:-1] and seq[1:]
Prefix(seq) == SubSeq(seq, 1, Len(seq) - 1)

Suffix(seq) == SubSeq(seq, 2, Len(seq))

RECURSIVE build_graph_from(_, _)
build_graph_from(g, items) ==
    IF items = <<>> THEN g
    ELSE build_graph_from(
             add_edge(g, Prefix(Head(items).kmer), Suffix(Head(items).kmer),
                      Head(items).n),
             Tail(items))

build_graph(d) == build_graph_from(DiGraph, d)

(***************************************************************************)
(* Start nodes, sink nodes and contigs                                     *)
(***************************************************************************)
get_starting_nodes(g) ==
    SelectSeq(g.nodes, LAMBDA n : Len(predecessors(g, n)) = 0)

get_sink_nodes(g) ==
    SelectSeq(g.nodes, LAMBDA n : Len(successors(g, n)) = 0)

\* The paths get_contigs collects: for start in starting_nodes, for end in
\* ending_nodes, every simple path when has_path.  A start that is also a
\* sink has no path of at least one edge to itself.
ContigPaths(g, starts, ends) ==
    Flatten([i \in 1..(Len(starts) * Len(ends)) |->
        LET s == starts[((i - 1) \div Len(ends)) + 1]
            e == ends[((i - 1) % Len(ends)) + 1]
        IN  IF has_path(g, s, e) /\ s # e THEN all_simple_paths(g, s, e) ELSE <<>>])

\* ContigOf with path[i][0] in the place of path[i][-1].
RECURSIVE ContigOfFirstChar(_, _, _)
ContigOfFirstChar(path, contig, i) ==
    IF i > Len(path) THEN contig
    ELSE ContigOfFirstChar(path, Append(contig, path[i][1]), i + 1)

\* contig = path[0]; for i in range(1, len(path)): contig += path[i][-1]
RECURSIVE ContigOf(_, _, _)
ContigOf(path, contig, i) ==
    IF i > Len(path) THEN contig
    ELSE ContigOf(path, Append(contig, path[i][Len(path[i])]), i + 1)

\* path[i][-1] raises IndexError on an empty node.
ContigRaises(path) == \E i \in 2..Len(path) : path[i] = <<>>

get_contigs(g, starts, ends) ==
    LET paths == ContigPaths(g, starts, ends)
    IN  IF \E i \in 1..Len(paths) : ContigRaises(paths[i])
        THEN [status |-> "IndexError", paths |-> paths, value |-> <<>>]
        ELSE [status |-> "ok", paths |-> paths,
              value |-> [i \in 1..Len(paths) |->
                  LET contig == ContigOf(paths[i], paths[i][1], 2)
                  IN  <<contig, Len(contig)>>]]

\* textwrap.fill on a string without blanks: lines of at most width characters.
RECURSIVE Wrap(_)
Wrap(s) ==
    IF Len(s) <= width THEN (IF s = <<>> THEN <<>> ELSE <<s>>)
    ELSE <<SubSeq(s, 1, width)>> \o Wrap(SubSeq(s, width + 1, Len(s)))

save_contigs(contigs_list) ==
    [i \in 1..Len(contigs_list) |->
        [contig_n |-> i - 1, len |-> contigs_list[i][2],
         lines |-> Wrap(contigs_list[i][1])]]

(***************************************************************************)
(* main(): one step per statement                                          *)
(***************************************************************************)
Alphabet == {"A", "C"}

Reads == UNION {[1..n -> Alphabet] : n \in 1..MaxReadLen}

\* What read_fastq yields: one or two reads.
ReadLists == {<<r>> : r \in Reads} \cup {<<r1, r2>> : r1 \in Reads, r2 \in Reads}

NoCall == [op |-> "none"]

NoRet == [status |-> "none"]

\* The k-mer size is at least 2 (with 1 every node is the empty string) and
\* no read is shorter than a k-mer.
InitMain ==
    /\ kmer_size \in 2..MaxK
    /\ fastq \in {rs \in ReadLists : \A i \in 1..Len(rs) : Len(rs[i]) >= kmer_size}
    /\ kmer_dict = <<>>
    /\ graph = DiGraph
    /\ starting_nodes = <<>>
    /\ ending_nodes = <<>>
    /\ contigs = <<>>
    /\ file_out = <<>>
    /\ pc = "build_kmer_dict"
    /\ done = <<>>
    /\ call = NoCall
    /\ pre = DiGraph
    /\ ret = NoRet

MainBuildKmerDict ==
    /\ pc = "build_kmer_dict"
    /\ kmer_dict' = build_kmer_dict(fastq, kmer_size)
    /\ pc' = "build_graph"
    /\ done' = Append(done, "build_kmer_dict")
    /\ UNCHANGED <<fastq, kmer_size, graph, starting_nodes, ending_nodes,
                   contigs, file_out, call, pre, ret>>

MainBuildGraph ==
    /\ pc = "build_graph"
    /\ graph' = build_graph(kmer_dict)
    /\ pc' = "get_starting_nodes"
    /\ done' = Append(done, "build_graph")
    /\ UNCHANGED <<fastq, kmer_size, kmer_dict, starting_nodes, ending_nodes,
                   contigs, file_out, call, pre, ret>>

MainGetStartingNodes ==
    /\ pc = "get_starting_nodes"
    /\ starting_nodes' = get_starting_nodes(graph)
    /\ pc' = "get_sink_nodes"
    /\ done' = Append(done, "get_starting_nodes")
    /\ UNCHANGED <<fastq, kmer_size, kmer_dict, graph, ending_nodes,
                   contigs, file_out, call, pre, ret>>

MainGetSinkNodes ==
    /\ pc = "get_sink_nodes"
    /\ ending_nodes' = get_sink_nodes(graph)
    /\ pc' = "get_contigs"
    /\ done' = Append(done, "get_sink_nodes")
    /\ UNCHANGED <<fastq, kmer_size, kmer_dict, graph, starting_nodes,
                   contigs, file_out, call, pre, ret>>

MainGetContigs ==
    /\ pc = "get_contigs"
    /\ LET r == get_contigs(graph, starting_nodes, ending_nodes)
       IN  /\ ret' = [status |-> r.status, paths |-> r.paths]
           /\ contigs' = r.value
           /\ pc' = IF r.status = "ok" THEN "save_contigs" ELSE "raised"
    /\ done' = Append(done, "get_contigs")
    /\ UNCHANGED <<fastq, kmer_size, kmer_dict, graph, starting_nodes,
                   ending_nodes, file_out, call, pre>>

MainSaveContigs ==
    /\ pc = "save_contigs"
    /\ file_out' = save_contigs(contigs)
    /\ pc' = "exit"
    /\ done' = Append(done, "save_contigs")
    /\ UNCHANGED <<fastq, kmer_size, kmer_dict, graph, starting_nodes,
                   ending_nodes, contigs, call, pre, ret>>

NextMain ==
    \/ MainBuildKmerDict
    \/ MainBuildGraph
    \/ MainGetStartingNodes
    \/ MainGetSinkNodes
    \/ MainGetContigs
    \/ MainSaveContigs

SpecMain == InitMain /\ [][NextMain]_vars

(***************************************************************************)
(* Path metrics, path removal and best-path selection                      *)
(***************************************************************************)
\* statistics.mean of the weights of graph.subgraph(path).edges: every edge
\* between two nodes of the path.  The mean is kept as the fraction num/den;
\* den = 0 is the empty mean, a StatisticsError.
RECURSIVE SumW(_)
SumW(es) == IF es = <<>> THEN 0 ELSE Head(es).w + SumW(Tail(es))

path_average_weight(g, path) ==
    LET es == SelectSeq(g.edges,
                  LAMBDA e : e.u \in Range(path) /\ e.v \in Range(path))
    IN  [num |-> SumW(es), den |-> Len(es)]

AvgLess(a, b) == a.num * b.den < b.num * a.den

AvgEq(a, b) == a.num * b.den = b.num * a.den

\* RemoveOnePath with path[:1] and path[-1:] in the place of path[:-1] and
\* path[1:].
RemoveOnePathEndpointOnly(g, path, delete_entry_node, delete_sink_node) ==
    IF delete_entry_node /\ delete_sink_node
    THEN remove_nodes_from(g, path)
    ELSE IF delete_entry_node
    THEN remove_nodes_from(g, SubSeq(path, 1, Min(1, Len(path))))
    ELSE IF delete_sink_node
    THEN remove_nodes_from(g, SubSeq(path, Len(path), Len(path)))
    ELSE remove_nodes_from(g, SubSeq(path, 2, Len(path) - 1))

\* for path in path_list: the branch the two flags take.
RemoveOnePath(g, path, delete_entry_node, delete_sink_node) ==
    IF delete_entry_node /\ delete_sink_node
    THEN remove_nodes_from(g, path)
    ELSE IF delete_entry_node
    THEN remove_nodes_from(g, SubSeq(path, 1, Len(path) - 1))
    ELSE IF delete_sink_node
    THEN remove_nodes_from(g, SubSeq(path, 2, Len(path)))
    ELSE remove_nodes_from(g, SubSeq(path, 2, Len(path) - 1))

RECURSIVE remove_paths(_, _, _, _)
remove_paths(g, path_list, delete_entry_node, delete_sink_node) ==
    IF path_list = <<>> THEN g
    ELSE remove_paths(
             RemoveOnePath(g, Head(path_list), delete_entry_node, delete_sink_node),
             Tail(path_list), delete_entry_node, delete_sink_node)

\* np.array(xs).argmax(): the 0-based index of the first maximum.
ArgmaxAvg(xs) ==
    (CHOOSE i \in 1..Len(xs) :
        /\ \A j \in 1..Len(xs) : ~AvgLess(xs[i], xs[j])
        /\ \A j \in 1..(i - 1) : AvgLess(xs[j], xs[i])) - 1

ArgmaxInt(xs) ==
    (CHOOSE i \in 1..Len(xs) :
        /\ \A j \in 1..Len(xs) : xs[j] <= xs[i]
        /\ \A j \in 1..(i - 1) : xs[j] < xs[i]) - 1

\* randint(0, len(path_list)): both ends included.
randint(a, b) == a..b

\* select_best_path with rnd the value randint returns when it is called.
\* statistics.stdev is zero exactly when all the values are equal.
select_best_path(g, path_list, path_length, weight_avg_list, delete_entry_node, delete_sink_node, rnd) ==
    LET many == Len(weight_avg_list) > 1
        stdev_weight_nz ==
            many /\ \E i, j \in 1..Len(weight_avg_list) :
                        ~AvgEq(weight_avg_list[i], weight_avg_list[j])
        stdev_length_nz ==
            many /\ \E i, j \in 1..Len(path_length) :
                        path_length[i] # path_length[j]
        index == IF stdev_weight_nz THEN ArgmaxAvg(weight_avg_list)
                 ELSE IF stdev_length_nz THEN ArgmaxInt(path_length)
                 ELSE rnd
    IN  IF index >= Len(path_list)
        THEN [status |-> "IndexError", graph |-> g, index |-> index,
              losers |-> path_list]
        ELSE [status |-> "ok",
              graph |-> remove_paths(g, Pop(path_list, index),
                                     delete_entry_node, delete_sink_node),
              index |-> index, losers |-> Pop(path_list, index)]

(***************************************************************************)
(* Bubbles                                                                 *)
(***************************************************************************)
\* None
NoNode == 0

\* solve_bubble: every outcome, over the values randint can return.  A
\* source that is not in the graph is NodeNotFound; with source = target
\* all_simple_paths yields nothing or the one-node path, depending on the
\* networkx release, and the call raises either way.
solve_bubble(g, ancestor_node, descendant_node) ==
    IF ~has_node(g, ancestor_node)
    THEN {[status |-> "NodeNotFound", graph |-> g]}
    ELSE IF ancestor_node = descendant_node
    THEN {[status |-> "IndexError", graph |-> g],
          [status |-> "StatisticsError", graph |-> g]}
    ELSE LET path_list == all_simple_paths(g, ancestor_node, descendant_node)
             len_list == [i \in 1..Len(path_list) |-> Len(path_list[i])]
             weight_avg_list ==
                 [i \in 1..Len(path_list) |-> path_average_weight(g, path_list[i])]
         IN  {[status |-> r.status, graph |-> r.graph] :
                 r \in {select_best_path(g, path_list, len_list, weight_avg_list,
                                         FALSE, FALSE, rnd) :
                           rnd \in randint(0, Len(path_list))}}

\* The pairs of predecessors the scan of simplify_bubbles hands to
\* lowest_common_ancestor, in order: the break leaves the loop over j only.
RECURSIVE ScanJ(_, _, _, _)
ScanJ(g, preds, i, j) ==
    IF j > Len(preds) THEN <<>>
    ELSE IF lowest_common_ancestor(g, preds[i], preds[j]) # {}
    THEN << <<preds[i], preds[j]>> >>
    ELSE << <<preds[i], preds[j]>> >> \o ScanJ(g, preds, i, j + 1)

ScanNode(g, node) ==
    LET preds == predecessors(g, node)
    IN  IF Len(preds) > 1
        THEN Flatten([i \in 1..Len(preds) |-> ScanJ(g, preds, i, i + 1)])
        ELSE <<>>

ScanPairs(g) == Flatten([k \in 1..Len(g.nodes) |-> ScanNode(g, g.nodes[k])])

\* The values of (bubble, ancestor_node, node) when the loops end: bubble is
\* set by any pair with a common ancestor, ancestor_node is what the last
\* call returned and node is the last node of graph.nodes().
ScanResults(g) ==
    LET pairs == ScanPairs(g)
        bubble == \E k \in 1..Len(pairs) :
                     lowest_common_ancestor(g, pairs[k][1], pairs[k][2]) # {}
        last == IF pairs = <<>> THEN {}
                ELSE lowest_common_ancestor(g, pairs[Len(pairs)][1],
                                            pairs[Len(pairs)][2])
        node == IF g.nodes = <<>> THEN NoNode ELSE g.nodes[Len(g.nodes)]
    IN  {[bubble |-> bubble, ancestor_node |-> a, node |-> node] :
            a \in IF last = {} THEN {NoNode} ELSE last}

(***************************************************************************)
(* Tips                                                                    *)
(***************************************************************************)
\* list(set(predecessors).intersection(starting_nodes)): a set has no
\* order, so the list is any arrangement of it.
Arrangements(S) ==
    {s \in [1..Cardinality(S) -> S] : \A i, j \in 1..Cardinality(S) :
                                           i # j => s[i] # s[j]}

TipPredecessors(g, node, starts) == Range(predecessors(g, node)) \cap Range(starts)

\* solve_entry_tips: every outcome.  At the first node with more than one
\* tip predecessor, select_best_path (with its default flags) returns the
\* graph, and paths.pop(best_path) raises TypeError: a DiGraph is no index.
solve_entry_tips(g, starts) ==
    LET hits == SelectSeq(g.nodes,
                    LAMBDA n : Cardinality(TipPredecessors(g, n, starts)) > 1)
    IN  IF hits = <<>> THEN {[status |-> "ok", graph |-> g]}
        ELSE LET node == Head(hits)
             IN  UNION {
                   LET path_list ==
                           [i \in 1..Len(tips) |-> all_simple_paths(g, tips[i], node)[1]]
                       len_list == [i \in 1..Len(tips) |-> Len(path_list[i])]
                       weight_avg_list ==
                           [i \in 1..Len(tips) |-> path_average_weight(g, path_list[i])]
                   IN  {LET best_path == select_best_path(g, path_list, len_list,
                                             weight_avg_list, FALSE, FALSE, rnd)
                        IN  IF best_path.status = "ok"
                            THEN [status |-> "TypeError", graph |-> best_path.graph]
                            ELSE [status |-> best_path.status, graph |-> best_path.graph]
                        : rnd \in randint(0, Len(path_list))}
                   : tips \in Arrangements(TipPredecessors(g, node, starts))}

\* solve_out_tips: pass.  The graph is untouched and the call returns None.
solve_out_tips(g, ends) == [status |-> "ok", value |-> "None", graph |-> g]

(***************************************************************************)
(* Calls on a graph                                                        *)
(***************************************************************************)
Weights == {1, 2}

RECURSIVE SeqOfEdges(_)
SeqOfEdges(E) ==
    IF E = {} THEN <<>>
    ELSE LET m == CHOOSE e \in E : \A f \in E :
                      e.u < f.u \/ (e.u = f.u /\ e.v <= f.v)
         IN  <<m>> \o SeqOfEdges(E \ {m})

\* The graph with nodes 1..n, added in that order, and the edges E.
MkGraph(n, E, wt) ==
    [nodes |-> [i \in 1..n |-> i],
     edges |-> SeqOfEdges({[u |-> p[1], v |-> p[2], w |-> wt[p]] : p \in E})]

IsDag(g) == \A n \in Range(g.nodes) : n \notin Reach(g, Range(successors(g, n)))

NodePairs(n) == {p \in (1..n) \X (1..n) : p[1] # p[2]}

IdleMain ==
    /\ fastq = <<>>
    /\ kmer_size = 1
    /\ kmer_dict = <<>>
    /\ starting_nodes = <<>>
    /\ ending_nodes = <<>>
    /\ contigs = <<>>
    /\ file_out = <<>>
    /\ done = <<>>

\* Any acyclic graph on at most MaxNodes nodes, in any insertion order.
InitGraph ==
    /\ IdleMain
    /\ \E n \in 2..MaxNodes : \E E \in SUBSET NodePairs(n) :
          /\ IsDag(MkGraph(n, E, [p \in E |-> 1]))
          /\ \E wt \in [E -> Weights] : graph = MkGraph(n, E, wt)
    /\ pc = "call"
    /\ call = NoCall
    /\ pre = DiGraph
    /\ ret = NoRet

Pipeline == <<fastq, kmer_size, kmer_dict, starting_nodes, ending_nodes,
              contigs, file_out, done>>

CallSolveBubble ==
    /\ pc = "call"
    /\ \E a \in Range(graph.nodes), d \in Range(graph.nodes) :
          /\ a # d
          /\ \E r \in solve_bubble(graph, a, d) :
                /\ call' = [op |-> "solve_bubble", ancestor_node |-> a,
                            descendant_node |-> d]
                /\ pre' = graph
                /\ graph' = r.graph
                /\ ret' = [status |-> r.status]
                /\ pc' = IF r.status = "ok" THEN "returned" ELSE "raised"
    /\ UNCHANGED Pipeline

\* One activation of simplify_bubbles: the scan, and with a bubble the call
\* of solve_bubble whose result the next activation takes.  An activation
\* that leaves the graph as it was is followed by the same activation again:
\* the recursion does not end (Python stops it with RecursionError).
CallSimplifyBubbles ==
    /\ pc \in {"call", "simplify_bubbles"}
    /\ \E s \in ScanResults(graph) :
          /\ call' = [op |-> "simplify_bubbles", bubble |-> s.bubble,
                      ancestor_node |-> s.ancestor_node, node |-> s.node]
          /\ pre' = graph
          /\ IF s.bubble
             THEN \E r \in solve_bubble(graph, s.ancestor_node, s.node) :
                     /\ graph' = r.graph
                     /\ ret' = [status |-> r.status]
                     /\ pc' = IF r.status = "ok" THEN "simplify_bubbles"
                              ELSE "raised"
             ELSE /\ graph' = graph
                  /\ ret' = [status |-> "ok"]
                  /\ pc' = "returned"
    /\ UNCHANGED Pipeline

CallSolveEntryTips ==
    /\ pc = "call"
    /\ \E r \in solve_entry_tips(graph, get_starting_nodes(graph)) :
          /\ call' = [op |-> "solve_entry_tips"]
          /\ pre' = graph
          /\ graph' = r.graph
          /\ ret' = [status |-> r.status, value |-> "graph"]
          /\ pc' = IF r.status = "ok" THEN "returned" ELSE "raised"
    /\ UNCHANGED Pipeline

CallSolveOutTips ==
    /\ pc = "call"
    /\ LET r == solve_out_tips(graph, get_sink_nodes(graph))
       IN  /\ call' = [op |-> "solve_out_tips"]
           /\ pre' = graph
           /\ graph' = r.graph
           /\ ret' = [status |-> r.status, value |-> r.value]
           /\ pc' = "returned"
    /\ UNCHANGED Pipeline

NextGraph ==
    \/ CallSolveBubble
    \/ CallSimplifyBubbles
    \/ CallSolveEntryTips
    \/ CallSolveOutTips

SpecGraph == InitGraph /\ [][NextGraph]_vars

(***************************************************************************)
(* Direct calls of select_best_path and remove_paths                       *)
(***************************************************************************)
Lengths == {2, 3}

\* An acyclic graph on 1..n with every edge from a smaller to a larger node.
InitPaths ==
    /\ IdleMain
    /\ \E n \in 2..PathNodes : \E E \in SUBSET {p \in NodePairs(n) : p[1] < p[2]} :
          graph = MkGraph(n, E, [p \in E |-> p[1] + p[2]])
    /\ pc = "call"
    /\ call = NoCall
    /\ pre = DiGraph
    /\ ret = NoRet

\* The candidates are the simple paths between two nodes; the lengths and
\* the average weights are the caller's.
CallSelectBestPath ==
    /\ pc = "call"
    /\ \E s \in Range(graph.nodes), t \in Range(graph.nodes) :
          /\ s # t
          /\ LET path_list == all_simple_paths(graph, s, t)
                 n == Len(path_list)
             IN  /\ n >= 1
                 /\ \E path_length \in [1..n -> Lengths], ws \in [1..n -> Weights],
                       delete_entry_node \in BOOLEAN, delete_sink_node \in BOOLEAN,
                       rnd \in randint(0, n) :
                       LET weight_avg_list == [i \in 1..n |-> [num |-> ws[i], den |-> 1]]
                           r == select_best_path(graph, path_list, path_length,
                                    weight_avg_list, delete_entry_node,
                                    delete_sink_node, rnd)
                       IN  /\ call' = [op |-> "select_best_path",
                                       path_list |-> path_list,
                                       path_length |-> path_length,
                                       weight_avg_list |-> weight_avg_list,
                                       delete_entry_node |-> delete_entry_node,
                                       delete_sink_node |-> delete_sink_node]
                           /\ pre' = graph
                           /\ graph' = r.graph
                           /\ ret' = [status |-> r.status, index |-> r.index,
                                      losers |-> r.losers]
                           /\ pc' = IF r.status = "ok" THEN "returned" ELSE "raised"
    /\ UNCHANGED Pipeline

NextSelect == CallSelectBestPath

SpecSelect == InitPaths /\ [][NextSelect]_vars

\* Every simple path of the graph between two nodes.
AllPaths(g) ==
    UNION {Range(all_simple_paths(g, p[1], p[2])) : p \in NodePairs(Len(g.nodes))}

PathLists(g) ==
    {<<>>} \cup {<<p>> : p \in AllPaths(g)}
           \cup {<<p, q>> : p \in AllPaths(g), q \in AllPaths(g)}

CallRemovePaths ==
    /\ pc = "call"
    /\ \E path_list \in PathLists(graph),
          delete_entry_node \in BOOLEAN, delete_sink_node \in BOOLEAN :
          /\ call' = [op |-> "remove_paths", path_list |-> path_list,
                      delete_entry_node |-> delete_entry_node,
                      delete_sink_node |-> delete_sink_node]
          /\ pre' = graph
          /\ graph' = remove_paths(graph, path_list, delete_entry_node,
                                   delete_sink_node)
          /\ ret' = [status |-> "ok"]
          /\ pc' = "returned"
    /\ UNCHANGED Pipeline

NextRemove == CallRemovePaths

SpecRemove == InitPaths /\ [][NextRemove]_vars

(***************************************************************************)
(* Properties                                                              *)
(***************************************************************************)
Removed == Range(pre.nodes) \ Range(graph.nodes)

\* C1: a call of select_best_path with n >= 1 candidates completes and
\* picks a winner among them (an index in 0..n-1), and the n-1 others are
\* the losers.  The code draws the tie-break from 0..n and pops index n.
C1_SelectsOneCandidate ==
    (call.op = "select_best_path" /\ Len(call.path_list) >= 1) =>
        /\ ret.status = "ok"
        /\ ret.index \in 0..(Len(call.path_list) - 1)
        /\ Len(ret.losers) = Len(call.path_list) - 1

\* C2: after solve_bubble on two nodes joined by two or more simple paths
\* exactly one simple path joins them, and an activation of
\* simplify_bubbles that found a bubble returns normally from solve_bubble
\* with a smaller graph (so the recursion ends).
C2_BubbleLeavesOnePath ==
    /\ (/\ call.op = "solve_bubble"
        /\ Len(all_simple_paths(pre, call.ancestor_node, call.descendant_node)) >= 2)
       => /\ ret.status = "ok"
          /\ Len(all_simple_paths(graph, call.ancestor_node,
                                  call.descendant_node)) = 1
    /\ (call.op = "simplify_bubbles" /\ call.bubble)
       => /\ ret.status = "ok"
          /\ Len(graph.nodes) < Len(pre.nodes)

\* What the amended C3 has a path lose: everything but the last node with
\* delete_entry_node alone, everything but the first with delete_sink_node
\* alone, everything with both, the interior with neither.
Deleted(path, delete_entry_node, delete_sink_node) ==
    {path[i] : i \in (IF delete_entry_node THEN 1 ELSE 2)
                     ..(IF delete_sink_node THEN Len(path) ELSE Len(path) - 1)}

\* C3 (amended): remove_paths deletes, for each path, all its nodes with
\* both flags, all but the last node with delete_entry_node alone, all but
\* the first node with delete_sink_node alone, and the strictly interior
\* nodes with neither; all other nodes, and the edges between them with
\* their weights, stay.
C3_RemovePolicy ==
    call.op = "remove_paths" =>
        LET gone == UNION {Deleted(p, call.delete_entry_node, call.delete_sink_node) :
                              p \in Range(call.path_list)}
        IN  /\ graph.nodes = SelectSeq(pre.nodes, LAMBDA n : n \notin gone)
            /\ graph.edges = SelectSeq(pre.edges,
                                 LAMBDA e : e.u \notin gone /\ e.v \notin gone)

\* C3, its case: delete_entry_node alone on a path of three or more nodes,
\* which loses all its nodes but the last.
C3_Witness ==
    /\ call.op = "remove_paths"
    /\ call.delete_entry_node /\ ~call.delete_sink_node
    /\ \E p \in Range(call.path_list) :
          /\ Len(p) >= 3
          /\ \A i \in 1..(Len(p) - 1) : p[i] \in Removed
          /\ p[Len(p)] \notin Removed

\* C3 (as claimed): with delete_entry_node alone only the first node of
\* each path goes, with delete_sink_node alone only the last, with both
\* flags both endpoints go, with neither only the interior nodes.
C3_OnlyTheEndpoint ==
    call.op = "remove_paths" =>
        LET ps == Range(call.path_list)
        IN  IF call.delete_entry_node /\ call.delete_sink_node
            THEN \A p \in ps : {p[1], p[Len(p)]} \subseteq Removed
            ELSE IF call.delete_entry_node
            THEN Removed = {p[1] : p \in ps}
            ELSE IF call.delete_sink_node
            THEN Removed = {p[Len(p)] : p \in ps}
            ELSE Removed = UNION {{p[i] : i \in 2..(Len(p) - 1)} : p \in ps}

\* The nodes with more than one predecessor that is a start node, and the
\* nodes with more than one successor that is a sink.
EntryJunctions(g) ==
    {n \in Range(g.nodes) :
        Cardinality(TipPredecessors(g, n, get_starting_nodes(g))) > 1}

TipSuccessors(g, node, ends) == Range(successors(g, node)) \cap Range(ends)

ExitJunctions(g) ==
    {n \in Range(g.nodes) :
        Cardinality(TipSuccessors(g, n, get_sink_nodes(g))) > 1}

\* C4: on a graph where a node has more than one start node among its
\* predecessors, solve_entry_tips returns the graph, the node is still in
\* it, and exactly one of the competing start nodes is left, as its
\* predecessor.
C4_EntryTipsResolved ==
    (call.op = "solve_entry_tips" /\ EntryJunctions(pre) # {}) =>
        /\ ret.status = "ok"
        /\ ret.value = "graph"
        /\ \A n \in EntryJunctions(pre) :
              LET tips == TipPredecessors(pre, n, get_starting_nodes(pre))
              IN  /\ has_node(graph, n)
                  /\ Cardinality(tips \cap Range(graph.nodes)) = 1
                  /\ tips \cap Range(graph.nodes) \subseteq Range(predecessors(graph, n))

\* C5: on a graph where a node has more than one sink among its successors,
\* solve_out_tips returns the graph, the node is still in it, and exactly
\* one of the competing sinks is left, as its successor.
C5_OutTipsResolved ==
    (call.op = "solve_out_tips" /\ ExitJunctions(pre) # {}) =>
        /\ ret.status = "ok"
        /\ ret.value = "graph"
        /\ \A n \in ExitJunctions(pre) :
              LET tips == TipSuccessors(pre, n, get_sink_nodes(pre))
              IN  /\ has_node(graph, n)
                  /\ Cardinality(tips \cap Range(graph.nodes)) = 1
                  /\ tips \cap Range(graph.nodes) \subseteq Range(successors(graph, n))

\* C6: select_best_path with one candidate keeps it as the winner, hands
\* no loser to remove_paths and leaves nodes, edges and weights as they were.
C6_SingleCandidateKept ==
    (call.op = "select_best_path" /\ Len(call.path_list) = 1) =>
        /\ ret.status = "ok"
        /\ ret.index = 0
        /\ ret.losers = <<>>
        /\ graph = pre

\* C7: in the graph built from the k-mer table every entry has its edge
\* prefix -> suffix with the entry's count as weight, no two entries share
\* an edge, and the nodes are the prefixes and the suffixes.
C7_EveryKmerItsEdge ==
    pc \notin {"build_kmer_dict", "build_graph"} =>
        /\ \A i \in 1..Len(kmer_dict) :
              /\ has_edge(graph, Prefix(kmer_dict[i].kmer), Suffix(kmer_dict[i].kmer))
              /\ edge_weight(graph, Prefix(kmer_dict[i].kmer),
                             Suffix(kmer_dict[i].kmer)) = kmer_dict[i].n
        /\ \A i, j \in 1..Len(kmer_dict) :
              (/\ Prefix(kmer_dict[i].kmer) = Prefix(kmer_dict[j].kmer)
               /\ Suffix(kmer_dict[i].kmer) = Suffix(kmer_dict[j].kmer)) => i = j
        /\ Range(graph.nodes) =
              UNION {{Prefix(kmer_dict[i].kmer), Suffix(kmer_dict[i].kmer)} :
                        i \in 1..Len(kmer_dict)}

\* A sequence of distinct nodes, each joined to the next by an edge.
IsSimplePath(g, p) ==
    /\ Len(p) >= 1
    /\ \A i, j \in 1..Len(p) : i # j => p[i] # p[j]
    /\ \A i \in 1..(Len(p) - 1) : has_edge(g, p[i], p[i + 1])

\* The number of simple paths from cur to t that avoid the nodes of seen.
RECURSIVE SumOver(_, _)
SumOver(f, S) ==
    IF S = {} THEN 0
    ELSE LET x == CHOOSE y \in S : TRUE IN f[x] + SumOver(f, S \ {x})

RECURSIVE NumPaths(_, _, _, _)
NumPaths(g, cur, t, seen) ==
    IF cur = t THEN 1
    ELSE LET next == {e.v : e \in {x \in Range(g.edges) : x.u = cur}} \ seen
         IN  SumOver([c \in next |-> NumPaths(g, c, t, seen \cup {c})], next)

IndexIn(s, x) == CHOOSE i \in 1..Len(s) : s[i] = x

\* C8: get_contigs returns one (sequence, length) pair for every simple
\* path from a start node to a sink, in the order of the (start, sink)
\* pairs, the sequence being the first node followed by the last character
\* of each later node and the length its number of characters.
C8_ContigPerPath ==
    "get_contigs" \in Range(done) =>
        /\ ret.status = "ok"
        /\ Len(contigs) = Len(ret.paths)
        /\ \A i \in 1..Len(ret.paths) :
              LET p == ret.paths[i]
              IN  /\ IsSimplePath(graph, p)
                  /\ p[1] \in Range(starting_nodes)
                  /\ p[Len(p)] \in Range(ending_nodes)
                  /\ contigs[i][1] =
                        p[1] \o [k \in 1..(Len(p) - 1) |-> p[k + 1][Len(p[k + 1])]]
                  /\ contigs[i][2] = Len(contigs[i][1])
                  /\ contigs[i][2] = Len(p[1]) + Len(p) - 1
        /\ \A i, j \in 1..Len(ret.paths) :
              i < j =>
                 /\ ret.paths[i] # ret.paths[j]
                 /\ LET si == IndexIn(starting_nodes, ret.paths[i][1])
                        sj == IndexIn(starting_nodes, ret.paths[j][1])
                        ei == IndexIn(ending_nodes, ret.paths[i][Len(ret.paths[i])])
                        ej == IndexIn(ending_nodes, ret.paths[j][Len(ret.paths[j])])
                    IN  si < sj \/ (si = sj /\ ei <= ej)
        /\ Len(ret.paths) =
              SumOver([q \in Range(starting_nodes) \X Range(ending_nodes) |->
                          NumPaths(graph, q[1], q[2], {q[1]})],
                      Range(starting_nodes) \X Range(ending_nodes))

\* C8, its case: two contigs of different lengths between the same start
\* and sink.
C8_Witness ==
    /\ "get_contigs" \in Range(done)
    /\ \E i, j \in 1..Len(contigs) :
          /\ i < j
          /\ ret.paths[i][1] = ret.paths[j][1]
          /\ ret.paths[i][Len(ret.paths[i])] = ret.paths[j][Len(ret.paths[j])]
          /\ contigs[i][2] # contigs[j][2]
          /\ Len(ret.paths[i]) >= 3

\* C9: the pair an activation of simplify_bubbles hands to solve_bubble is
\* a node with more than one predecessor and a lowest common ancestor of
\* two of its predecessors.
C9_HandsDetectedBubble ==
    (call.op = "simplify_bubbles" /\ call.bubble) =>
        LET preds == predecessors(pre, call.node)
        IN  /\ Len(preds) > 1
            /\ call.ancestor_node # NoNode
            /\ \E i, j \in 1..Len(preds) :
                  /\ i < j
                  /\ call.ancestor_node \in
                        lowest_common_ancestor(pre, preds[i], preds[j])

\* C10: the contigs are extracted only after the k-mer table and the graph
\* were built and bubble and tip resolution have run, in that order.
PhaseIndex(name) ==
    IF \E i \in 1..Len(done) : done[i] = name
    THEN CHOOSE i \in 1..Len(done) : done[i] = name
    ELSE 0

C10_PhaseOrder ==
    "get_contigs" \in Range(done) =>
        /\ 0 < PhaseIndex("build_kmer_dict")
        /\ PhaseIndex("build_kmer_dict") < PhaseIndex("build_graph")
        /\ PhaseIndex("build_graph") < PhaseIndex("simplify_bubbles")
        /\ PhaseIndex("simplify_bubbles") < PhaseIndex("solve_entry_tips")
        /\ PhaseIndex("solve_entry_tips") < PhaseIndex("solve_out_tips")
        /\ PhaseIndex("solve_out_tips") < PhaseIndex("get_contigs")

====
